---- MODULE Spec2Model ----
(***************************************************************************)
(* Model of descompactador.py: the Descompactador class (source            *)
(* validation, format detection, extraction of ZIP and TAR archives with   *)
(* path sanitisation, permission restoration and cleanup on failure) and   *)
(* the command line entry point principal().                               *)
(*                                                                         *)
(* A path is a sequence of components counted from the filesystem root.    *)
(* The filesystem is a function from the existing paths to nodes           *)
(*   [tipo, conteudo, modo, ino]                                           *)
(* where two paths with the same ino are hard links of one file.           *)
(* The model has no symbolic links, so Path.resolve() is the lexical       *)
(* elimination of ".." components.                                         *)
(***************************************************************************)
EXTENDS Integers, Sequences, FiniteSets, TLC

VARIABLES
    origem,         \* the source path on disk: [existe, regular, tamanho, legivel]
    nome,           \* the source file name, split at the dots
    arquivo,        \* the members of the archive, in archive order
    integridade,    \* "ok" or "corrompido": what the archive reader finds
    destino,        \* sys.argv[2] as a path, <<>> when absent
    privilegiado,   \* TRUE when the process runs as the superuser
    fs,             \* the filesystem
    fs0,            \* the filesystem when the current run started
    pc,             \* position of the run
    formato,        \* self.formato
    caminho_saida,  \* caminho_saida of extrair
    idx,            \* index of the next member of the loop
    causa,          \* the exception raised inside extrair: [classe, detalhe]
    excecao,        \* the class of the exception that reaches principal
    saida,          \* the process exit code, -1 while running
    execucoes,      \* number of runs started on this filesystem
    abriu,          \* the run opened the archive
    aplicados,      \* the modes given to chmod by this run
    injetada        \* an I/O fault hit this run

vars == <<origem, nome, arquivo, integridade, destino, privilegiado, fs, fs0,
          pc, formato, caminho_saida, idx, causa, excecao, saida, execucoes,
          abriu, aplicados, injetada>>

entradas == <<origem, nome, arquivo, integridade, destino, privilegiado>>

(***************************************************************************)
(* Bounds                                                                  *)
(***************************************************************************)
MaxMembros == 3      \* members of an archive
MaxPartes == 4       \* dot-separated pieces of a file name (format detection)
MaxExecucoes == 2    \* runs on the same filesystem

(***************************************************************************)
(* Integers as bit strings                                                 *)
(***************************************************************************)
Oct(a, b, c) == a * 64 + b * 8 + c

RECURSIVE BitAnd(_, _)
BitAnd(a, b) ==
    IF a = 0 \/ b = 0 THEN 0
    ELSE (IF a % 2 = 1 /\ b % 2 = 1 THEN 1 ELSE 0) + 2 * BitAnd(a \div 2, b \div 2)

\* a 32-bit word is kept as its two 16-bit halves [alto, baixo]; x >> 16
ShiftRight16(x) == x.alto

(***************************************************************************)
(* Paths                                                                   *)
(***************************************************************************)
Ultimo(p) == p[Len(p)]
Pai(p) == SubSeq(p, 1, Len(p) - 1)

\* PurePath.is_relative_to
is_relative_to(p, base) ==
    Len(p) >= Len(base) /\ SubSeq(p, 1, Len(base)) = base

\* Path.resolve() on a filesystem without symbolic links
RECURSIVE resolve(_)
resolve(p) ==
    IF p = <<>> THEN <<>>
    ELSE LET r == resolve(Pai(p))
             c == Ultimo(p)
         IN  IF c = ".." THEN (IF r = <<>> THEN <<>> ELSE Pai(r))
             ELSE Append(r, c)

\* destino / caminho: an absolute right operand replaces the left one
Unir(base, caminho) ==
    IF caminho.abs THEN caminho.partes ELSE base \o caminho.partes

(***************************************************************************)
(* Format detection                                                        *)
(***************************************************************************)
FORMATOS_SUPORTADOS == {".zip", ".tar", ".tar.gz", ".tar.bz2", ".tar.xz"}

\* str.lstrip('.') on a name split at the dots
RECURSIVE SemPontosIniciais(_)
SemPontosIniciais(n) ==
    IF Len(n) >= 2 /\ Head(n) = "" THEN SemPontosIniciais(Tail(n)) ELSE n

\* PurePath.suffixes
suffixes(n) ==
    IF Len(n) >= 2 /\ Ultimo(n) = "" THEN <<>>
    ELSE LET s == SemPontosIniciais(n)
         IN  [k \in 1..(Len(s) - 1) |-> "." \o s[k + 1]]

\* ''.join
RECURSIVE Juntar(_)
Juntar(s) == IF s = <<>> THEN "" ELSE Head(s) \o Juntar(Tail(s))

Combinado(s, k) == Juntar(SubSeq(s, k, Len(s)))

Minimo(S) == CHOOSE x \in S : \A y \in S : x <= y

\* a detector that only tries the whole suffix sequence as a combination
detectar_formato_so_inteiro(sufixos) ==
    LET n == Len(sufixos)
    IN  IF n >= 2 /\ Combinado(sufixos, 1) \in FORMATOS_SUPORTADOS
        THEN [erro |-> "", formato |-> Combinado(sufixos, 1)]
        ELSE IF n >= 1 /\ sufixos[n] \in FORMATOS_SUPORTADOS
        THEN [erro |-> "", formato |-> sufixos[n]]
        ELSE [erro |-> "FormatoNaoSuportadoError", formato |-> ""]

\* Descompactador._detectar_formato
detectar_formato(sufixos) ==
    LET n == Len(sufixos)
        achados == {k \in 1..(n - 1) : Combinado(sufixos, k) \in FORMATOS_SUPORTADOS}
    IN  IF n >= 2 /\ achados # {}
        THEN [erro |-> "", formato |-> Combinado(sufixos, Minimo(achados))]
        ELSE IF n >= 1 /\ sufixos[n] \in FORMATOS_SUPORTADOS
        THEN [erro |-> "", formato |-> sufixos[n]]
        ELSE [erro |-> "FormatoNaoSuportadoError", formato |-> ""]

(***************************************************************************)
(* Source validation                                                       *)
(***************************************************************************)
\* a validation that forgets the size check
validar_arquivo_sem_tamanho(o) ==
    IF ~o.existe THEN "FileNotFoundError"
    ELSE IF ~o.regular THEN "ArquivoInvalidoError"
    ELSE IF ~o.legivel THEN "PermissionError"
    ELSE ""

\* Descompactador._validar_arquivo: the class of the exception raised, "" if none
validar_arquivo(o) ==
    IF ~o.existe THEN "FileNotFoundError"
    ELSE IF ~o.regular THEN "ArquivoInvalidoError"
    ELSE IF o.tamanho = 0 THEN "ArquivoInvalidoError"
    ELSE IF ~o.legivel THEN "PermissionError"
    ELSE ""

\* Descompactador.__init__: validation, then format detection
construir(o, n) ==
    LET v == validar_arquivo(o)
        d == detectar_formato(suffixes(n))
    IN  IF v # "" THEN [erro |-> v, formato |-> ""]
        ELSE d

(***************************************************************************)
(* The filesystem                                                          *)
(***************************************************************************)
Umask == Oct(0, 2, 2)

No(tipo, conteudo, modo, ino) ==
    [tipo |-> tipo, conteudo |-> conteudo, modo |-> modo, ino |-> ino]

Ok(f) == [fs |-> f, erro |-> ""]
Falha(f, e) == [fs |-> f, erro |-> e]

EhDir(f, p) == p = <<>> \/ (p \in DOMAIN f /\ f[p].tipo = "dir")

Criar(f, p, no) == [q \in DOMAIN f \cup {p} |-> IF q = p THEN no ELSE f[q]]

\* every path of the inode of p gets the new content / the new mode
Escrever(f, p, c) ==
    [q \in DOMAIN f |-> IF f[q].ino = f[p].ino THEN [f[q] EXCEPT !.conteudo = c] ELSE f[q]]

MudarModo(f, p, m) ==
    [q \in DOMAIN f |-> IF f[q].ino = f[p].ino THEN [f[q] EXCEPT !.modo = m] ELSE f[q]]

\* the kernel's walk of a path: every component but the last must be an
\* existing directory, ".." steps to the parent
RECURSIVE Local(_, _)
Local(f, p) ==
    IF p = <<>> THEN [erro |-> "", caminho |-> <<>>, existe |-> TRUE]
    ELSE LET h == Local(f, Pai(p))
             c == Ultimo(p)
         IN  IF h.erro # "" THEN h
             ELSE IF ~h.existe
             THEN [erro |-> "FileNotFoundError", caminho |-> h.caminho, existe |-> FALSE]
             ELSE IF ~EhDir(f, h.caminho)
             THEN [erro |-> "NotADirectoryError", caminho |-> h.caminho, existe |-> FALSE]
             ELSE IF c = ".."
             THEN [erro |-> "", existe |-> TRUE,
                   caminho |-> IF h.caminho = <<>> THEN <<>> ELSE Pai(h.caminho)]
             ELSE [erro |-> "", caminho |-> Append(h.caminho, c),
                   existe |-> Append(h.caminho, c) \in DOMAIN f]

os_path_exists(f, p) == Local(f, p).erro = "" /\ Local(f, p).existe

is_dir(f, p) == os_path_exists(f, p) /\ EhDir(f, Local(f, p).caminho)

\* may the process add an entry to directory d
PodeCriarEm(f, d, priv) ==
    priv \/ d = <<>> \/ BitAnd(f[d].modo, Oct(2, 0, 0)) # 0

\* os.mkdir
os_mkdir(f, p, modo, priv) ==
    LET l == Local(f, p)
    IN  IF l.erro # "" THEN Falha(f, l.erro)
        ELSE IF l.existe THEN Falha(f, "FileExistsError")
        ELSE IF ~PodeCriarEm(f, Pai(l.caminho), priv) THEN Falha(f, "PermissionError")
        ELSE Ok(Criar(f, l.caminho,
                      No("dir", "", BitAnd(modo, Oct(7, 7, 7) - Umask), l.caminho)))

\* Path.mkdir(mode=modo, parents=parents, exist_ok=True)
RECURSIVE path_mkdir(_, _, _, _, _)
path_mkdir(f, p, modo, parents, priv) ==
    LET r == os_mkdir(f, p, modo, priv)
    IN  IF r.erro = "" THEN r
        ELSE IF r.erro = "FileNotFoundError"
        THEN IF ~parents \/ p = <<>> THEN r
             ELSE LET r1 == path_mkdir(f, Pai(p), Oct(7, 7, 7), TRUE, priv)
                  IN  IF r1.erro # "" THEN r1
                      ELSE path_mkdir(r1.fs, p, modo, FALSE, priv)
        ELSE IF is_dir(f, p) THEN Ok(f)
        ELSE r

\* os.makedirs(p) as tarfile calls it: mode 0o777, exist_ok=False
RECURSIVE os_makedirs(_, _, _)
os_makedirs(f, p, priv) ==
    LET r1 == IF p # <<>> /\ ~os_path_exists(f, Pai(p))
              THEN os_makedirs(f, Pai(p), priv)
              ELSE Ok(f)
    IN  IF r1.erro \notin {"", "FileExistsError"} THEN r1
        ELSE os_mkdir(r1.fs, p, Oct(7, 7, 7), priv)

\* open(p, 'wb'): create or truncate
open_wb(f, p, priv) ==
    LET l == Local(f, p)
    IN  IF l.erro # "" THEN Falha(f, l.erro)
        ELSE IF l.existe
        THEN IF EhDir(f, l.caminho) THEN Falha(f, "IsADirectoryError")
             ELSE IF ~priv /\ BitAnd(f[l.caminho].modo, Oct(2, 0, 0)) = 0
             THEN Falha(f, "PermissionError")
             ELSE Ok(Escrever(f, l.caminho, ""))
        ELSE IF ~PodeCriarEm(f, Pai(l.caminho), priv) THEN Falha(f, "PermissionError")
        ELSE Ok(Criar(f, l.caminho,
                      No("file", "", BitAnd(Oct(6, 6, 6), Oct(7, 7, 7) - Umask), l.caminho)))

\* open(p, 'wb') followed by the copy of the member's content; with falha the
\* device fails after the file was opened
gravar(f, p, c, priv, falha) ==
    LET o == open_wb(f, p, priv)
    IN  IF o.erro # "" THEN o
        ELSE IF falha THEN Falha(o.fs, "OSError")
        ELSE Ok(Escrever(o.fs, Local(o.fs, p).caminho, c))

\* Path.chmod
chmod(f, p, m) ==
    LET l == Local(f, p)
    IN  IF l.erro # "" THEN Falha(f, l.erro)
        ELSE IF ~l.existe THEN Falha(f, "FileNotFoundError")
        ELSE IF l.caminho = <<>> THEN Falha(f, "PermissionError")
        ELSE Ok(MudarModo(f, l.caminho, m))

\* os.link(src, dst)
os_link(f, src, dst, priv) ==
    LET s == Local(f, src)
        d == Local(f, dst)
    IN  IF s.erro # "" THEN Falha(f, s.erro)
        ELSE IF ~s.existe THEN Falha(f, "FileNotFoundError")
        ELSE IF EhDir(f, s.caminho) THEN Falha(f, "PermissionError")
        ELSE IF d.erro # "" THEN Falha(f, d.erro)
        ELSE IF d.existe THEN Falha(f, "FileExistsError")
        ELSE IF ~PodeCriarEm(f, Pai(d.caminho), priv) THEN Falha(f, "PermissionError")
        ELSE Ok(Criar(f, d.caminho, f[s.caminho]))

\* any(caminho.iterdir())
TemFilhos(f, raiz) ==
    \E q \in DOMAIN f : Len(q) = Len(raiz) + 1 /\ is_relative_to(q, raiz)

\* shutil.rmtree(raiz, ignore_errors=True), every removal succeeding
rmtree(f, raiz) ==
    [q \in {x \in DOMAIN f : ~is_relative_to(x, raiz)} |-> f[q]]

(***************************************************************************)
(* Archive members                                                         *)
(*   [abs, partes, tipo, conteudo, modo, alvo]                             *)
(* abs and partes are the member's name, tipo is "file", "dir" or "lnk" (a *)
(* TAR hard link whose linkname is alvo), modo the permission bits the     *)
(* archive records (0: none).                                              *)
(***************************************************************************)
Membro(abs, partes, tipo, conteudo, modo, alvo) ==
    [abs |-> abs, partes |-> partes, tipo |-> tipo, conteudo |-> conteudo,
     modo |-> modo, alvo |-> alvo]

NomeDe(m) == [abs |-> m.abs, partes |-> m.partes]

\* ZipInfo.external_attr of a member written on Unix: st_mode in the high word
external_attr(m) ==
    IF m.modo = 0 THEN [alto |-> 0, baixo |-> 0]
    ELSE [alto |-> (IF m.tipo = "dir" THEN 16384 ELSE 32768) + m.modo, baixo |-> 0]

\* the result of handling one member
Res(f, erro, detalhe, modos) ==
    [fs |-> f, erro |-> erro, detalhe |-> detalhe, modos |-> modos]

De(r, modos) ==
    Res(r.fs, r.erro, IF r.erro = "" THEN "" ELSE "io", IF r.erro = "" THEN modos ELSE {})

\* Descompactador._sanitizar_caminho
sanitizar_caminho(caminho, dest) ==
    LET caminho_resolvido == resolve(Unir(dest, caminho))
    IN  IF ~is_relative_to(caminho_resolvido, resolve(dest))
        THEN [erro |-> "ArquivoInvalidoError", alvo |-> caminho_resolvido]
        ELSE [erro |-> "", alvo |-> caminho_resolvido]

\* the permission restoration of _extrair_zip: the mode given to chmod, or {}
modo_zip(m) ==
    LET modo == BitAnd(ShiftRight16(external_attr(m)), Oct(7, 7, 7))
    IN  IF modo # 0 /\ BitAnd(modo, Oct(2, 0, 0)) = 0
        THEN {BitAnd(modo, Oct(7, 7, 7))}
        ELSE {}

\* the permission restoration of _extrair_tar
modo_tar(m) ==
    IF m.modo # 0 THEN {BitAnd(m.modo, Oct(7, 7, 7))} ELSE {}

\* chmod of alvo with the mode of modos, if there is one
Restaurar(f, alvo, modos) ==
    IF modos = {} THEN Ok(f)
    ELSE chmod(f, alvo, CHOOSE x \in modos : TRUE)

\* one iteration of the loop of _extrair_zip
membro_zip(f, m, dest, priv, falha) ==
    LET s == sanitizar_caminho(NomeDe(m), dest)
    IN  IF s.erro # "" THEN Res(f, s.erro, "path traversal", {})
        ELSE IF ~m.abs /\ m.partes = <<>> THEN Res(f, "IndexError", "io", {})
        ELSE IF m.tipo = "dir"
        THEN De(path_mkdir(f, s.alvo, Oct(7, 0, 0), FALSE, priv), {})
        ELSE LET w == gravar(f, s.alvo, m.conteudo, priv, falha)
             IN  IF w.erro # "" THEN De(w, {})
                 ELSE De(Restaurar(w.fs, s.alvo, modo_zip(m)), modo_zip(m))

\* TarFile.makelink for a hard link member whose linkname names no member of
\* the archive: an OSError of os.link becomes an ExtractError, which the
\* default errorlevel does not raise; a missing link target is a KeyError
makelink(f, m, targetpath, path, priv) ==
    LET link_target == path \o m.alvo
        r == os_link(f, link_target, targetpath, priv)
    IN  IF os_path_exists(f, link_target)
        THEN IF r.erro # "" THEN Ok(f) ELSE r
        ELSE Falha(f, "KeyError")

\* TarFile.extract(membro, path, set_attrs=False)
tar_extract(f, m, path, priv, falha) ==
    LET targetpath == Unir(path, NomeDe(m))
        upperdirs == Pai(targetpath)
        u == IF targetpath # <<>> /\ ~os_path_exists(f, upperdirs)
             THEN os_makedirs(f, upperdirs, priv)
             ELSE Ok(f)
    IN  IF u.erro # "" THEN u
        ELSE IF m.tipo = "lnk" THEN makelink(u.fs, m, targetpath, path, priv)
        ELSE gravar(u.fs, targetpath, m.conteudo, priv, falha)

\* one iteration of the loop of _extrair_tar
membro_tar(f, m, dest, priv, falha) ==
    LET s == sanitizar_caminho(NomeDe(m), dest)
    IN  IF s.erro # "" THEN Res(f, s.erro, "path traversal", {})
        ELSE IF m.tipo = "dir"
        THEN De(path_mkdir(f, s.alvo, Oct(7, 0, 0), FALSE, priv), {})
        ELSE LET x == tar_extract(f, m, dest, priv, falha)
             IN  IF x.erro # "" THEN De(x, {})
                 ELSE De(Restaurar(x.fs, s.alvo, modo_tar(m)), modo_tar(m))

\* a cleanup that removes nothing
limpeza_ausente(f, raiz) == f

\* the cleanup of the except block of extrair
limpeza(f, raiz) ==
    IF os_path_exists(f, raiz) /\ TemFilhos(f, raiz) THEN rmtree(f, raiz) ELSE f

\* the except clauses of principal: the exit code for an exception class
codigo_saida(classe) ==
    IF classe \in {"ErroArquivo", "ArquivoInvalidoError", "FormatoNaoSuportadoError"}
    THEN 1
    ELSE IF classe = "KeyboardInterrupt" THEN 130
    ELSE 2

(***************************************************************************)
(* Inputs                                                                  *)
(***************************************************************************)
Cwd == <<"home">>

Origens ==
    {[existe |-> FALSE, regular |-> FALSE, tamanho |-> 0, legivel |-> FALSE]}
    \cup {[existe |-> TRUE, regular |-> FALSE, tamanho |-> 1, legivel |-> TRUE]}
    \cup {[existe |-> TRUE, regular |-> TRUE, tamanho |-> t, legivel |-> l] :
            t \in {0, 1}, l \in BOOLEAN}

OrigemOk == [existe |-> TRUE, regular |-> TRUE, tamanho |-> 1, legivel |-> TRUE]

Nomes == {<<"a", "zip">>, <<"a", "tar", "gz">>, <<"a", "txt">>}

Planos ==
    {Membro(FALSE, <<"a">>, "file", "hello", Oct(6, 4, 4), <<>>),
     Membro(FALSE, <<"a">>, "file", "world", 4 * 512 + Oct(4, 6, 4), <<>>),
     Membro(FALSE, <<"sub">>, "dir", "", Oct(7, 5, 5), <<>>),
     Membro(FALSE, <<"sub", "b">>, "file", "world", 0, <<>>)}

Hostis ==
    {Membro(FALSE, <<"..", "evil">>, "file", "hello", Oct(6, 4, 4), <<>>),
     Membro(TRUE, <<"evil">>, "dir", "", Oct(7, 5, 5), <<>>),
     Membro(FALSE, <<"a", "..", "b">>, "file", "hello", Oct(6, 6, 6), <<>>),
     Membro(FALSE, <<>>, "file", "hello", Oct(6, 4, 4), <<>>)}

Ligacoes == {Membro(FALSE, <<"a">>, "lnk", "", Oct(6, 4, 4), <<"..", "secret">>)}

MembrosZip == Planos \cup Hostis
MembrosTar == Planos \cup Hostis \cup Ligacoes

Sequencias(S, n) == UNION {[1..k -> S] : k \in 0..n}

FSBase ==
    Criar(Criar(Criar(Criar(<<>>,
        <<"secret">>, No("file", "seg", Oct(6, 4, 4), <<"secret">>)),
        <<"home">>, No("dir", "", Oct(7, 5, 5), <<"home">>)),
        <<"home", "keep">>, No("file", "keep", Oct(6, 4, 4), <<"home", "keep">>)),
        <<"ro">>, No("dir", "", Oct(5, 5, 5), <<"ro">>))

FSComOut ==
    Criar(Criar(FSBase,
        <<"out">>, No("dir", "", Oct(7, 0, 0), <<"out">>)),
        <<"out", "keep">>, No("file", "keep", Oct(6, 4, 4), <<"out", "keep">>))

\* sys.argv[2] (absent: <<>>), the filesystem it is used on, and whether the
\* process is the superuser (for whom the read-only directory is no obstacle)
Cenarios ==
    {<<d, FSBase, p>> : d \in {<<>>, <<"out">>}, p \in BOOLEAN}
    \cup {<<<<"out">>, FSComOut, p>> : p \in BOOLEAN}
    \cup {<<<<"ro", "out">>, FSBase, FALSE>>}

SemCausa == [classe |-> "", detalhe |-> "", membro |-> 0]

Parado ==
    /\ pc = "inicio"
    /\ formato = ""
    /\ caminho_saida = <<>>
    /\ idx = 0
    /\ causa = SemCausa
    /\ excecao = ""
    /\ saida = -1
    /\ abriu = FALSE
    /\ aplicados = {}
    /\ injetada = FALSE

Init ==
    /\ origem \in Origens
    /\ nome \in Nomes
    /\ integridade \in {"ok", "corrompido"}
    /\ \E c \in Cenarios : destino = c[1] /\ fs = c[2] /\ privilegiado = c[3]
    /\ arquivo \in
         IF origem # OrigemOk \/ integridade # "ok" THEN {<<>>}
         ELSE IF detectar_formato(suffixes(nome)).formato = ".zip"
         THEN Sequencias(MembrosZip, MaxMembros)
         ELSE IF detectar_formato(suffixes(nome)).formato = ""
         THEN {<<>>}
         ELSE Sequencias(MembrosTar, MaxMembros)
    /\ fs0 = fs
    /\ execucoes = 1
    /\ Parado

(***************************************************************************)
(* The steps of a run: principal()                                         *)
(***************************************************************************)
\* Descompactador(sys.argv[1])
Construir ==
    /\ pc = "inicio"
    /\ LET r == construir(origem, nome)
       IN  /\ formato' = r.formato
           /\ excecao' = r.erro
           /\ pc' = IF r.erro = "" THEN "construido" ELSE "excecao"
    /\ UNCHANGED <<entradas, fs, fs0, caminho_saida, idx, causa, saida, execucoes,
                   abriu, aplicados, injetada>>

\* extrair: the output directory is resolved and created
CriarSaida ==
    /\ pc = "construido"
    /\ LET c == IF destino = <<>> THEN Cwd ELSE resolve(destino)
           r == path_mkdir(fs, c, Oct(7, 0, 0), TRUE, privilegiado)
       IN  /\ caminho_saida' = c
           /\ fs' = r.fs
           /\ excecao' = r.erro
           /\ pc' = IF r.erro = "" THEN "pronto" ELSE "excecao"
    /\ UNCHANGED <<entradas, fs0, formato, idx, causa, saida, execucoes,
                   abriu, aplicados, injetada>>

\* _extrair_zip / _extrair_tar: the archive is opened (and a ZIP verified)
Abrir ==
    /\ pc = "pronto"
    /\ abriu' = TRUE
    /\ IF integridade = "ok"
       THEN /\ pc' = "iterar"
            /\ idx' = 1
            /\ causa' = causa
       ELSE /\ pc' = "falha"
            /\ idx' = idx
            /\ causa' = [classe |-> "ArquivoInvalidoError", detalhe |-> "corrompido",
                         membro |-> 0]
    /\ UNCHANGED <<entradas, fs, fs0, formato, caminho_saida, excecao, saida,
                   execucoes, aplicados, injetada>>

\* one member of the loop; falha: the device fails while the member is written
ExtrairMembro ==
    /\ pc = "iterar"
    /\ idx <= Len(arquivo)
    /\ \E falha \in BOOLEAN :
         LET m == arquivo[idx]
             r == IF formato = ".zip"
                  THEN membro_zip(fs, m, caminho_saida, privilegiado, falha)
                  ELSE membro_tar(fs, m, caminho_saida, privilegiado, falha)
         IN  /\ fs' = r.fs
             /\ aplicados' = aplicados \cup r.modos
             /\ injetada' = (injetada \/ r.erro = "OSError")
             /\ IF r.erro = ""
                THEN /\ idx' = idx + 1
                     /\ pc' = "iterar"
                     /\ causa' = causa
                ELSE /\ idx' = idx
                     /\ pc' = "falha"
                     /\ causa' = [classe |-> r.erro, detalhe |-> r.detalhe, membro |-> idx]
    /\ UNCHANGED <<entradas, fs0, formato, caminho_saida, excecao, saida, execucoes,
                   abriu>>

\* the loop ends: extrair returns
Concluir ==
    /\ pc = "iterar"
    /\ idx > Len(arquivo)
    /\ pc' = "retorno"
    /\ UNCHANGED <<entradas, fs, fs0, formato, caminho_saida, idx, causa, excecao,
                   saida, execucoes, abriu, aplicados, injetada>>

\* the except block of extrair: cleanup, then ErroArquivo
Tratar ==
    /\ pc = "falha"
    /\ fs' = limpeza(fs, caminho_saida)
    /\ excecao' = "ErroArquivo"
    /\ pc' = "excecao"
    /\ UNCHANGED <<entradas, fs0, formato, caminho_saida, idx, causa, saida,
                   execucoes, abriu, aplicados, injetada>>

\* the user interrupts the run: KeyboardInterrupt is no Exception
Interromper ==
    /\ pc \in {"construido", "iterar"}
    /\ excecao' = "KeyboardInterrupt"
    /\ pc' = "excecao"
    /\ UNCHANGED <<entradas, fs, fs0, formato, caminho_saida, idx, causa, saida,
                   execucoes, abriu, aplicados, injetada>>

\* principal: sys.exit
Sair ==
    /\ pc \in {"retorno", "excecao"}
    /\ saida' = IF pc = "retorno" THEN 0 ELSE codigo_saida(excecao)
    /\ pc' = "fim"
    /\ UNCHANGED <<entradas, fs, fs0, formato, caminho_saida, idx, causa, excecao,
                   execucoes, abriu, aplicados, injetada>>

\* the same command is run again on the filesystem the last run left
Reexecutar ==
    /\ pc = "fim"
    /\ saida = 0
    /\ execucoes < MaxExecucoes
    /\ execucoes' = execucoes + 1
    /\ fs0' = fs
    /\ pc' = "inicio"
    /\ formato' = ""
    /\ caminho_saida' = <<>>
    /\ idx' = 0
    /\ causa' = SemCausa
    /\ excecao' = ""
    /\ saida' = -1
    /\ abriu' = FALSE
    /\ aplicados' = {}
    /\ injetada' = FALSE
    /\ UNCHANGED <<entradas, fs>>

Next ==
    \/ Construir
    \/ CriarSaida
    \/ Abrir
    \/ ExtrairMembro
    \/ Concluir
    \/ Tratar
    \/ Interromper
    \/ Sair
    \/ Reexecutar

Spec == Init /\ [][Next]_vars

(***************************************************************************)
(* Format detection alone: every file name of up to MaxPartes pieces       *)
(***************************************************************************)
Pecas == {"", "a", "tar", "gz", "bz2", "xz", "zip", "txt"}

InitFormato ==
    /\ nome \in UNION {[1..k -> Pecas] : k \in 1..MaxPartes}
    /\ origem = OrigemOk
    /\ arquivo = <<>>
    /\ integridade = "ok"
    /\ destino = <<"out">>
    /\ privilegiado = FALSE
    /\ fs = FSBase
    /\ fs0 = fs
    /\ execucoes = 1
    /\ Parado

SpecFormato == InitFormato /\ [][Construir]_vars

(***************************************************************************)
(* Properties                                                              *)
(***************************************************************************)
\* the destination of member m, joined to the root and resolved, leaves the root
Escapa(m, raiz) == ~is_relative_to(resolve(Unir(raiz, NomeDe(m))), raiz)

TemPontoPonto(m) == \E k \in 1..Len(m.partes) : m.partes[k] = ".."

\* the members the loop has passed without an exception
Passou(k) == abriu /\ pc \in {"iterar", "falha", "retorno", "excecao", "fim"} /\ idx > k

\* the failure of the run was raised while member k was handled
FalhouEm(k) == causa.membro = k

EhTraversal == causa.classe = "ArquivoInvalidoError" /\ causa.detalhe = "path traversal"

Interrompida == excecao = "KeyboardInterrupt"

\* p lies below the output root
Abaixo(p) == caminho_saida # <<>> /\ is_relative_to(p, caminho_saida) /\ p # caminho_saida

\* an escaping member never passes the loop, and fails it with the
\* path-traversal error naming it
C1_Rejeita ==
    \A k \in 1..Len(arquivo) :
        Escapa(arquivo[k], caminho_saida) =>
            /\ ~Passou(k)
            /\ FalhouEm(k) => EhTraversal

\* while an archive with an escaping member is extracted, every path outside
\* the root exists as it did when the run started, with the same content
C1_SemEscritaFora ==
    (abriu /\ \E k \in 1..Len(arquivo) : Escapa(arquivo[k], caminho_saida)) =>
        \A p \in DOMAIN fs \cup DOMAIN fs0 :
            ~is_relative_to(p, caminho_saida) =>
                /\ p \in DOMAIN fs /\ p \in DOMAIN fs0
                /\ fs[p].tipo = fs0[p].tipo
                /\ fs[p].conteudo = fs0[p].conteudo

\* C1: every member whose resolved destination leaves OutputRoot makes extrair
\* fail with the path-traversal error naming it, and in no state of the run is
\* anything created or written outside OutputRoot
C1_Traversal == C1_Rejeita /\ C1_SemEscritaFora

\* a member with a plain relative name: not empty, not absolute, no ".."
Simples(m) ==
    /\ m.tipo \in {"file", "dir"} /\ ~m.abs /\ m.partes # <<>> /\ ~TemPontoPonto(m)

NomesDistintos ==
    \A j, k \in 1..Len(arquivo) : j # k => NomeDe(arquivo[j]) # NomeDe(arquivo[k])

RaizVaziaNoInicio ==
    \A p \in DOMAIN fs0 : ~(is_relative_to(p, caminho_saida) /\ p # caminho_saida)

\* a run that nothing outside the archive disturbed
SemPerturbacao == integridade = "ok" /\ ~injetada /\ ~Interrompida

ConteudoFiel ==
    /\ \A k \in 1..Len(arquivo) :
         LET p == caminho_saida \o arquivo[k].partes
         IN  /\ p \in DOMAIN fs
             /\ fs[p].tipo = arquivo[k].tipo
             /\ arquivo[k].tipo = "file" => fs[p].conteudo = arquivo[k].conteudo
    /\ \A p \in DOMAIN fs : Abaixo(p) =>
         \E k \in 1..Len(arquivo) :
            is_relative_to(caminho_saida \o arquivo[k].partes, p)

\* C2: an archive of N members without traversal attempt, extracted into an
\* empty OutputRoot, ends in success with exactly the N members and their
\* content, the missing ancestor directories being created
C2_ExtracaoCompleta ==
    (/\ pc = "fim" /\ abriu /\ execucoes = 1
     /\ SemPerturbacao
     /\ RaizVaziaNoInicio
     /\ NomesDistintos
     /\ \A k \in 1..Len(arquivo) : Simples(arquivo[k]))
    => (saida = 0 /\ ConteudoFiel)

\* C3: no mode applied by the permission restoration has the group-write,
\* other-write, setuid or setgid bit
C3_ModosSeguros ==
    \A m \in aplicados :
        /\ BitAnd(m, Oct(0, 2, 2)) = 0
        /\ BitAnd(m, 6 * 512) = 0

\* C4: a failure during open, verify or iterate (an exception raised inside the
\* try block of extrair) leads to the failed end: after the cleanup nothing is
\* left below OutputRoot, and the caller gets an error, never a success
C4_FalhaLimpa ==
    /\ causa.classe # "" => pc \in {"falha", "excecao", "fim"}
    /\ (causa.classe # "" /\ pc \in {"excecao", "fim"}) =>
         /\ excecao = "ErroArquivo"
         /\ \A p \in DOMAIN fs : ~Abaixo(p)
    /\ (causa.classe # "" /\ pc = "fim") => saida = 1

C4_Testemunha ==
    /\ pc = "fim" /\ injetada /\ idx = 2
    /\ caminho_saida \notin DOMAIN fs

\* the last member of the archive with the name of member k
UltimoDoNome(k) ==
    CHOOSE j \in 1..Len(arquivo) :
        /\ NomeDe(arquivo[j]) = NomeDe(arquivo[k])
        /\ \A i \in 1..Len(arquivo) : NomeDe(arquivo[i]) = NomeDe(arquivo[k]) => i <= j

\* C5: extracting the same archive again into the result of a successful run
\* succeeds, every name holding the content of its last member
C5_Reexecucao ==
    (/\ pc = "fim" /\ execucoes = 2
     /\ SemPerturbacao
     /\ \A k \in 1..Len(arquivo) : arquivo[k].tipo \in {"file", "dir"})
    => /\ saida = 0
       /\ \A k \in 1..Len(arquivo) :
            arquivo[UltimoDoNome(k)].tipo = "file" =>
                LET p == resolve(caminho_saida \o arquivo[k].partes)
                IN  p \in DOMAIN fs /\ fs[p].conteudo = arquivo[UltimoDoNome(k)].conteudo

\* C6: the detected format is the multi-part format when the last two suffixes
\* are .tar and .gz/.bz2/.xz, else the last suffix when it is .zip or .tar,
\* else detection fails with the unsupported-format error
C6_Deteccao ==
    pc # "inicio" =>
        LET s == suffixes(nome)
            n == Len(s)
        IN  IF n >= 2 /\ s[n - 1] = ".tar" /\ s[n] \in {".gz", ".bz2", ".xz"}
            THEN excecao = "" /\ formato = ".tar" \o s[n]
            ELSE IF n >= 1 /\ s[n] \in {".zip", ".tar"}
            THEN excecao = "" /\ formato = s[n]
            ELSE excecao = "FormatoNaoSuportadoError" /\ formato = ""

C6_Testemunha ==
    pc # "inicio" /\ Len(suffixes(nome)) = 3 /\ formato = ".tar.gz"

\* C7: exit code 0 on success, 130 on interrupt, 1 for the classified
\* failures (those of construction, the invalid-archive and path-traversal
\* failures of extrair), 2 for an unexpected I/O error during extraction
C7_CodigosDeSaida ==
    pc = "fim" =>
        /\ excecao = "" => saida = 0
        /\ Interrompida => saida = 130
        /\ (~Interrompida /\ excecao # "" /\ formato = "") => saida = 1
        /\ (~Interrompida /\ causa.classe = "ArquivoInvalidoError") => saida = 1
        /\ (~Interrompida /\ causa.classe = "OSError") => saida = 2

\* C8: every member whose name has a ".." segment is rejected with the
\* path-traversal error, also when it resolves inside OutputRoot
C8_PontoPontoRejeitado ==
    \A k \in 1..Len(arquivo) :
        TemPontoPonto(arquivo[k]) =>
            /\ ~Passou(k)
            /\ FalhouEm(k) => EhTraversal

OrigemInvalida ==
    ~origem.existe \/ ~origem.regular \/ origem.tamanho = 0 \/ ~origem.legivel

SufixoNaoSuportado ==
    \/ suffixes(nome) = <<>>
    \/ Ultimo(suffixes(nome)) \notin {".zip", ".tar", ".gz", ".bz2", ".xz"}

\* C9: with a missing, non-regular, empty or unreadable source, or an
\* unsupported suffix, the run fails with nothing created and no archive opened;
\* a zero-byte regular file fails with the invalid-archive error
C9_ValidacaoAntes ==
    /\ (OrigemInvalida \/ SufixoNaoSuportado) =>
         /\ fs = fs0 /\ ~abriu /\ caminho_saida = <<>>
         /\ pc \in {"inicio", "excecao", "fim"}
         /\ pc = "fim" => saida \notin {0, -1}
    /\ (origem.existe /\ origem.regular /\ origem.tamanho = 0 /\ pc \in {"excecao", "fim"})
         => excecao = "ArquivoInvalidoError"

C9_Testemunha ==
    /\ pc = "fim" /\ origem.existe /\ origem.regular /\ origem.tamanho = 0
    /\ destino = <<"out">> /\ <<"out">> \notin DOMAIN fs
    /\ excecao = "ArquivoInvalidoError"

\* p is the destination of a member of the archive
Nomeado(p) ==
    \E k \in 1..Len(arquivo) : resolve(Unir(caminho_saida, NomeDe(arquivo[k]))) = p

\* C10: a failed extrair leaves every file and directory that was below
\* OutputRoot before the run, and that no member names, as it was
C10_PreservaExistentes ==
    (pc = "fim" /\ causa.classe # "") =>
        \A p \in DOMAIN fs0 :
            (Abaixo(p) /\ ~Nomeado(p)) => (p \in DOMAIN fs /\ fs[p] = fs0[p])

====
